---------------------------- MODULE Spec2Model ----------------------------
(***************************************************************************)
(* A model of ai_accessibility_checker.py: file discovery, the model call  *)
(* and its response parser (scan_with_ai), and the main scan loop with its *)
(* report rendering.                                                       *)
(*                                                                         *)
(* Text is a sequence of lexemes.  The lexemes are the ones the parser's   *)
(* regular expressions and the JSON decoder tell apart:                    *)
(*   "[" "]" ","      JSON punctuation                                     *)
(*   "\n"             a line break (whitespace)                            *)
(*   "FENCE" "json"   a code fence (three backticks) and the language tag  *)
(*                    that may follow it                                   *)
(*   "x"              prose: any character that is no JSON                 *)
(*   "1"              a JSON number (a value that is no object)            *)
(*   "{}" ...         a whole JSON object, see Objects                     *)
(***************************************************************************)
EXTENDS Integers, Sequences, FiniteSets, TLC

VARIABLES
    pc,             \* where the program is
    reply,          \* what the model endpoint did for the latest call
    issues,         \* what scan_with_ai returned
    log,            \* what scan_with_ai printed
    raised,         \* the exception that left the program uncaught ("none")
    CONFIG,         \* the configuration load_config returned
    directory,      \* the directory to scan: the names on its path
    tree,           \* the files under it, in the order the system lists them
    files_to_scan,  \* what find_supported_files returned
    env_ack,        \* the value of AI_CHECKER_ACKNOWLEDGED
    resp,           \* what the user typed at the acknowledgement prompt
    output_format,  \* table or list
    idx,            \* the position of main's loop in files_to_scan
    attempted,      \* the files the loop has taken, in order
    readlog,        \* how reading each of them ended
    calls,          \* the calls to the model endpoint made for each of them
    console         \* what the latest iteration of the loop printed

scanvars == <<reply, issues, log>>
findvars == <<CONFIG, directory, tree, files_to_scan>>
mainvars == <<env_ack, resp, output_format, idx, attempted, readlog, calls, console>>
vars == <<pc, raised, scanvars, findvars, mainvars>>

----------------------------------------------------------------------------
(* Bounds *)

\* the longest text the parser is given, in lexemes
MaxLen == 4

\* the deepest directory of a tree, and the number of files of a tree
MaxDepth == 2
MaxEntries == 2

\* the number of files main scans, and the longest array the model returns
MaxScanFiles == 2
MaxIssues == 2

----------------------------------------------------------------------------
(* Text *)

\* JSON objects: one without fields, one with a title and a list of lines,
\* one whose line_numbers is a number
Objects == {"{}", "{title:T,line_numbers:[3]}", "{line_numbers:5}"}

\* The lexemes of the texts the parser is tried on; the json tag comes with
\* the fence a text is wrapped in
Alphabet == {"[", "]", ",", "\n", "FENCE", "x", "{}"}

RECURSIVE SeqsOfLen(_, _)
SeqsOfLen(S, n) ==
    IF n = 0 THEN {<<>>}
    ELSE {Append(s, c) : s \in SeqsOfLen(S, n - 1), c \in S}

SeqsUpTo(S, n) == UNION {SeqsOfLen(S, k) : k \in 0..n}

Texts == SeqsUpTo(Alphabet, MaxLen)

\* str.isspace for one lexeme
IsSpace(c) == c \in {"\n", " "}

\* str.strip()
RECURSIVE LStrip(_)
LStrip(s) ==
    IF s # <<>> /\ IsSpace(Head(s)) THEN LStrip(Tail(s)) ELSE s

RECURSIVE RStrip(_)
RStrip(s) ==
    IF s # <<>> /\ IsSpace(s[Len(s)]) THEN RStrip(SubSeq(s, 1, Len(s) - 1)) ELSE s

Strip(s) == LStrip(RStrip(s))

\* "^" under re.MULTILINE: the start of the text or right after a line break
AtLineStart(s, i) == i = 1 \/ s[i - 1] = "\n"

\* "$" under re.MULTILINE, after the lexeme at i: the end of the text or right
\* before a line break
AtLineEnd(s, i) == i = Len(s) \/ s[i + 1] = "\n"

\* re.sub(r"^FENCE(json)?|FENCE$", "", s, flags=re.MULTILINE), scanning from i:
\* the matches are found on the original text, left to right, the first
\* alternative first, and each is replaced by nothing.
RECURSIVE SubFencesFrom(_, _)
SubFencesFrom(s, i) ==
    IF i > Len(s) THEN <<>>
    ELSE IF s[i] = "FENCE" /\ AtLineStart(s, i)
         THEN IF i + 1 <= Len(s) /\ s[i + 1] = "json"
              THEN SubFencesFrom(s, i + 2)
              ELSE SubFencesFrom(s, i + 1)
    ELSE IF s[i] = "FENCE" /\ AtLineEnd(s, i)
         THEN SubFencesFrom(s, i + 1)
    ELSE <<s[i]>> \o SubFencesFrom(s, i + 1)

SubFences(s) == SubFencesFrom(s, 1)

\* raw_output after lines 141-142
CleanOutput(content) == Strip(SubFences(Strip(content)))

Positions(s, c) == {i \in 1..Len(s) : s[i] = c}

Min(S) == CHOOSE x \in S : \A y \in S : x <= y
Max(S) == CHOOSE x \in S : \A y \in S : x >= y

NoMatch == [found |-> FALSE, text |-> <<>>]

\* a lazy ".*?": from the first "[" to the first "]" after it
SearchArray_Lazy(s) ==
    LET opens == Positions(s, "[")
        closes == IF opens = {} THEN {}
                  ELSE {j \in Positions(s, "]") : j > Min(opens)}
    IN  IF closes = {} THEN NoMatch
        ELSE [found |-> TRUE, text |-> SubSeq(s, Min(opens), Min(closes))]

\* re.search(r"\[.*\]", s, re.DOTALL): the leftmost match, and "." (which
\* matches line breaks too) is greedy: from the first "[" that has a "]"
\* after it to the last "]" of the text.
SearchArray(s) ==
    LET opens == Positions(s, "[")
        closes == IF opens = {} THEN {}
                  ELSE {j \in Positions(s, "]") : j > Min(opens)}
    IN  IF closes = {} THEN NoMatch
        ELSE [found |-> TRUE, text |-> SubSeq(s, Min(opens), Max(closes))]

----------------------------------------------------------------------------
(* json.loads.  A decoded array is the sequence of its elements; an element *)
(* is kept as its canonical text (its lexemes without whitespace), so that  *)
(* two elements are equal exactly when they decode to equal values.         *)

JsonSpace(c) == c \in {"\n", " "}

JsonScalars == {"1"} \cup Objects

RECURSIVE SkipWs(_, _)
SkipWs(s, i) ==
    IF i <= Len(s) /\ JsonSpace(s[i]) THEN SkipWs(s, i + 1) ELSE i

JsonFail == [ok |-> FALSE, items |-> <<>>, next |-> 0]

RECURSIVE Join(_)
Join(items) ==
    IF items = <<>> THEN <<>>
    ELSE IF Len(items) = 1 THEN items[1]
    ELSE items[1] \o <<",">> \o Join(Tail(items))

Canonical(items) == <<"[">> \o Join(items) \o <<"]">>

\* ParseArray(s, i): s[i] is "["; the elements of the array that starts
\* there and the position after its "]".
\* ParseElems(s, i, acc): the elements after acc, the next value at i.
RECURSIVE ParseArray(_, _), ParseElems(_, _, _)
ParseArray(s, i) ==
    LET j == SkipWs(s, i + 1)
    IN  IF j > Len(s) THEN JsonFail
        ELSE IF s[j] = "]" THEN [ok |-> TRUE, items |-> <<>>, next |-> j + 1]
        ELSE ParseElems(s, j, <<>>)

ParseElems(s, i, acc) ==
    IF i > Len(s) THEN JsonFail
    ELSE
      LET v == IF s[i] \in JsonScalars
                 THEN [ok |-> TRUE, items |-> <<s[i]>>, next |-> i + 1]
               ELSE IF s[i] = "["
                 THEN LET a == ParseArray(s, i)
                      IN  IF a.ok
                          THEN [ok |-> TRUE, items |-> Canonical(a.items),
                                next |-> a.next]
                          ELSE JsonFail
               ELSE JsonFail
      IN  IF ~v.ok THEN JsonFail
          ELSE LET j == SkipWs(s, v.next)
               IN  IF j > Len(s) THEN JsonFail
                   ELSE IF s[j] = "]"
                     THEN [ok |-> TRUE, items |-> Append(acc, v.items),
                           next |-> j + 1]
                   ELSE IF s[j] = ","
                     THEN ParseElems(s, SkipWs(s, j + 1), Append(acc, v.items))
                   ELSE JsonFail

\* json.loads(s) for a text whose first lexeme, after whitespace, is "[":
\* ok is FALSE where json.loads raises JSONDecodeError (also for text after
\* the value: "Extra data").
JsonLoads(s) ==
    LET i == SkipWs(s, 1)
    IN  IF i > Len(s) \/ s[i] # "[" THEN JsonFail
        ELSE LET a == ParseArray(s, i)
             IN  IF a.ok /\ SkipWs(s, a.next) > Len(s) THEN a ELSE JsonFail

----------------------------------------------------------------------------
(* scan_with_ai *)

Fences == {"none", "plain", "json"}

\* A text in a leading fence line and a trailing fence
Wrap(fence, t) ==
    IF fence = "plain" THEN <<"FENCE", "\n">> \o t \o <<"\n", "FENCE">>
    ELSE IF fence = "json" THEN <<"FENCE", "json", "\n">> \o t \o <<"\n", "FENCE">>
    ELSE t

\* What the endpoint does: the call raises ("error"), the message has no
\* content ("none"), or the content is the text base in the fence.
Replies(texts) ==
    [kind : {"text"}, fence : Fences, base : texts]
    \cup [kind : {"error", "none"}, fence : {"none"}, base : {<<>>}]

Content(r) == Wrap(r.fence, r.base)

\* line 148: the else branch
NoMatchResult_Wrapped(raw) ==
    LET d == JsonLoads(<<"[">> \o raw \o <<"]">>)
    IN  IF d.ok THEN d.items ELSE <<>>

NoMatchResult(raw) == <<>>

\* lines 132-148, the body of the try: the value returned, or the exception
\* raised in it
TryBody(r) ==
    IF r.kind = "error" THEN [exc |-> "APIError", value |-> <<>>]
    ELSE IF r.kind = "none" THEN [exc |-> "AttributeError", value |-> <<>>]
    ELSE
      LET raw_output == CleanOutput(Content(r))
          match == SearchArray(raw_output)
      IN  IF match.found
          THEN LET d == JsonLoads(match.text)
               IN  IF d.ok THEN [exc |-> "none", value |-> d.items]
                   ELSE [exc |-> "JSONDecodeError", value |-> <<>>]
          ELSE [exc |-> "none", value |-> NoMatchResult(raw_output)]

\* isinstance(exc, cls) for the exceptions of the model: all are Exceptions
IsInstance(exc, cls) ==
    \/ cls = "Exception"
    \/ cls = exc

ScanHandlers_JsonOnly == <<"JSONDecodeError">>

\* lines 150 and 153: the except clauses, in order
ScanHandlers == <<"JSONDecodeError", "Exception">>

HandlerMessage(cls) ==
    IF cls = "JSONDecodeError" THEN "JSON parsing error" ELSE "Error scanning file"

\* lines 131-155: what scan_with_ai returns and prints, and the exception
\* that leaves it
ScanWithAI(r) ==
    LET t == TryBody(r)
        catching == {k \in 1..Len(ScanHandlers) : IsInstance(t.exc, ScanHandlers[k])}
    IN  IF t.exc = "none"
          THEN [issues |-> t.value, log |-> <<>>, raised |-> "none"]
        ELSE IF catching # {}
          THEN [issues |-> <<>>,
                log |-> <<HandlerMessage(ScanHandlers[Min(catching)])>>,
                raised |-> "none"]
        ELSE [issues |-> <<>>, log |-> <<>>, raised |-> t.exc]


----------------------------------------------------------------------------
(* find_supported_files.  A name is the sequence of its parts, "." a part  *)
(* of its own: a.stories.jsx is <<"a", ".", "stories", ".", "jsx">>.  A    *)
(* file of the tree is [dirs, file]: the directories from the scanned      *)
(* directory down to it, and its name.                                     *)

\* lines 33-35: the default settings
DefaultConfig ==
    [SUPPORTED_EXTENSIONS |->
        << <<".", "html">>, <<".", "twig">>, <<".", "css">>, <<".", "scss">>,
           <<".", "pcss">>, <<".", "jsx">>, <<".", "tsx">> >>,
     EXCLUDED_DIRS |->
        << <<"node_modules">>, <<"storybook">>, <<".", "git">>,
           <<"__pycache__">>, <<"dist">>, <<"build">> >>,
     EXCLUDED_PATTERNS |->
        << <<".", "stories", ".", "jsx">>, <<".", "stories", ".", "tsx">> >>]

\* lines 38-39: a checker.config.json of the user's
CustomConfig ==
    [SUPPORTED_EXTENSIONS |-> << <<".", "jsx">> >>,
     EXCLUDED_DIRS |-> << <<"src">> >>,
     EXCLUDED_PATTERNS |-> << <<".", "min", ".">> >>]

Configs == {DefaultConfig, CustomConfig}

InSeq(x, s) == \E k \in 1..Len(s) : s[k] = x

\* name.endswith(ext)
EndsWith(name, ext) ==
    /\ Len(ext) <= Len(name)
    /\ SubSeq(name, Len(name) - Len(ext) + 1, Len(name)) = ext

\* pat in name
Contains(name, pat) ==
    \E i \in 1..(Len(name) - Len(pat) + 1) : SubSeq(name, i, i + Len(pat) - 1) = pat

\* d.startswith('.')
StartsWithDot(d) == d # <<>> /\ Head(d) = "."

\* no pruning: every directory is walked
KeepDir_All(d, config) == TRUE

\* line 87: the directories os.walk goes on into
KeepDir(d, config) == ~StartsWithDot(d) /\ ~InSeq(d, config.EXCLUDED_DIRS)

\* lines 89-92
KeepFile(f, config) ==
    /\ \E k \in 1..Len(config.SUPPORTED_EXTENSIONS) :
          EndsWith(f, config.SUPPORTED_EXTENSIONS[k])
    /\ ~\E k \in 1..Len(config.EXCLUDED_PATTERNS) :
          Contains(f, config.EXCLUDED_PATTERNS[k])

IsPrefix(p, q) == Len(p) <= Len(q) /\ SubSeq(q, 1, Len(p)) = p

\* os.walk's files for the directory rel: the listing's files right in it
RECURSIVE ListFiles(_, _)
ListFiles(t, rel) ==
    IF t = <<>> THEN <<>>
    ELSE (IF Head(t).dirs = rel THEN <<Head(t).file>> ELSE <<>>)
         \o ListFiles(Tail(t), rel)

\* os.walk's dirs for the directory rel: its subdirectories, each once, in
\* the order of the listing
RECURSIVE ListDirs(_, _, _)
ListDirs(t, rel, seen) ==
    IF t = <<>> THEN <<>>
    ELSE LET e == Head(t)
             sub == Len(e.dirs) > Len(rel) /\ IsPrefix(rel, e.dirs)
             d == e.dirs[Len(rel) + 1]
         IN  IF sub /\ d \notin seen
             THEN <<d>> \o ListDirs(Tail(t), rel, seen \cup {d})
             ELSE ListDirs(Tail(t), rel, seen)

\* lines 88-93: the files of one directory that are kept, as paths
RECURSIVE KeptFiles(_, _, _, _)
KeptFiles(top, rel, files, config) ==
    IF files = <<>> THEN <<>>
    ELSE (IF KeepFile(Head(files), config)
          THEN <<[dirs |-> top \o rel, file |-> Head(files)]>>
          ELSE <<>>)
         \o KeptFiles(top, rel, Tail(files), config)

\* lines 86-93: os.walk top-down from the directory rel: its files, then each
\* directory that line 87 keeps
RECURSIVE Walk(_, _, _, _), WalkDirs(_, _, _, _, _)
Walk(top, t, rel, config) ==
    KeptFiles(top, rel, ListFiles(t, rel), config)
    \o WalkDirs(top, t, rel, ListDirs(t, rel, {}), config)

WalkDirs(top, t, rel, dirs, config) ==
    IF dirs = <<>> THEN <<>>
    ELSE (IF KeepDir(Head(dirs), config)
          THEN Walk(top, t, Append(rel, Head(dirs)), config)
          ELSE <<>>)
         \o WalkDirs(top, t, rel, Tail(dirs), config)

\* lines 84-94
FindSupportedFiles(top, t, config) == Walk(top, t, <<>>, config)

----------------------------------------------------------------------------
(* The report: lines 188-215 *)

\* issue.get(key, default) for an object of Objects
Get(obj, key, default) ==
    IF obj = "{title:T,line_numbers:[3]}" /\ key = "title" THEN "T"
    ELSE IF obj = "{title:T,line_numbers:[3]}" /\ key = "line_numbers" THEN "[3]"
    ELSE IF obj = "{line_numbers:5}" /\ key = "line_numbers" THEN "5"
    ELSE default

\* an element of the decoded array that is a dict
IsDict(item) == Len(item) = 1 /\ item[1] \in Objects

\* ", ".join(map(str, v)) for the values line_numbers takes here
JoinLines(v) == IF v = "[3]" THEN "3" ELSE ""

\* map(str, v) raises TypeError for a value that is no list
Iterable(v) == v \in {"[]", "[3]"}

\* the exception that formatting one element raises: .get on an element that
\* is no dict, map over line_numbers that is no list
ItemError(item) ==
    IF ~IsDict(item) THEN "AttributeError"
    ELSE IF ~Iterable(Get(item[1], "line_numbers", "[]")) THEN "TypeError"
    ELSE "none"

\* lines 194-202, 211-214: the fields of one row or item
Row(i, item) ==
    [n |-> i,
     title |-> Get(item[1], "title", ""),
     issue_type |-> Get(item[1], "issue_type", ""),
     severity |-> Get(item[1], "severity", ""),
     lines |-> JoinLines(Get(item[1], "line_numbers", "[]")),
     description |-> Get(item[1], "description", ""),
     suggestion |-> Get(item[1], "suggestion", "")]

Msg(kind, rows) == [kind |-> kind, rows |-> rows]

FirstError(found) ==
    LET bad == {k \in 1..Len(found) : ItemError(found[k]) # "none"}
    IN  IF bad = {} THEN 0 ELSE Min(bad)

\* lines 192-207: table_data is built whole before anything is printed
RenderTable(found) ==
    LET k == FirstError(found)
    IN  IF k = 0
        THEN [out |-> <<Msg("table", [i \in 1..Len(found) |-> Row(i, found[i])]),
                        Msg("rule", <<>>)>>,
              exc |-> "none"]
        ELSE [out |-> <<>>, exc |-> ItemError(found[k])]

\* lines 209-215: the items are printed one after the other; of an item whose
\* line_numbers is no list the first line (211) is printed before line 212
\* raises
RenderList(found) ==
    LET k == FirstError(found)
        upto == IF k = 0 THEN Len(found) ELSE k - 1
        done == [i \in 1..upto |-> Msg("item", <<Row(i, found[i])>>)]
    IN  IF k = 0 THEN [out |-> done, exc |-> "none"]
        ELSE [out |-> IF ItemError(found[k]) = "TypeError"
                      THEN Append(done, Msg("item_head", <<>>))
                      ELSE done,
              exc |-> ItemError(found[k])]

Render(found, format) ==
    IF format = "table" THEN RenderTable(found)
    ELSE IF format = "list" THEN RenderList(found)
    ELSE [out |-> <<>>, exc |-> "none"]

\* "if issues is None": an empty list is rendered
NoIssues_None(found) == FALSE

\* line 188: not issues
NoIssues(found) == found = <<>>

\* two calls when the first raises
CallsMade_Retry(r) == IF r.kind = "error" THEN 2 ELSE 1

\* lines 132-139: the calls to the endpoint one scan_with_ai makes
CallsMade(r) == 1

MainHandlers_OSError == <<"OSError">>

\* line 217: the except clause of the loop's body
MainHandlers == <<"Exception">>

\* lines 188-215: what rendering prints and raises; nothing when there is
\* nothing to render
Rendered(scan, format) ==
    IF scan.raised # "none" \/ NoIssues(scan.issues)
    THEN [out |-> <<>>, exc |-> "none"]
    ELSE Render(scan.issues, format)

\* the exception raised in the body of the loop's try
BodyExc(read, scan, rendered) ==
    IF read # "ok" THEN read
    ELSE IF scan.raised # "none" THEN scan.raised
    ELSE rendered.exc

\* what the body of the loop's try prints: line 184, what scan_with_ai
\* prints, then line 189 or the report
Printed(read, scan, rendered) ==
    IF read # "ok" THEN <<>>
    ELSE <<Msg("scanning", <<>>)>>
         \o [k \in 1..Len(scan.log) |-> Msg(scan.log[k], <<>>)]
         \o (IF scan.raised # "none" THEN <<>>
             ELSE IF NoIssues(scan.issues) THEN <<Msg("no_issues", <<>>)>>
             ELSE rendered.out)

Caught(exc) == \E k \in 1..Len(MainHandlers) : IsInstance(exc, MainHandlers[k])

\* lines 217-218 after the body: the message of the handler, or the
\* exception going on
Handled(read, r, scan, printed, exc) ==
    [console |-> IF exc # "none" /\ Caught(exc)
                 THEN Append(printed, Msg("could_not_read", <<>>))
                 ELSE printed,
     issues |-> IF read = "ok" THEN scan.issues ELSE <<>>,
     log |-> IF read = "ok" THEN scan.log ELSE <<>>,
     calls |-> IF read = "ok" THEN CallsMade(r) ELSE 0,
     raised |-> IF exc # "none" /\ ~Caught(exc) THEN exc ELSE "none"]

Body(read, r, scan, rendered) ==
    Handled(read, r, scan, Printed(read, scan, rendered),
            BodyExc(read, scan, rendered))

\* lines 180-218: one iteration of main's loop for a file whose reading ends
\* as read says ("ok", or the exception open raises) and for which
\* the endpoint does r: what is printed, what scan_with_ai returned, the calls
\* made, and the exception that leaves the iteration
IterationOf(read, r, scan, format) == Body(read, r, scan, Rendered(scan, format))

Iteration(read, r, format) == IterationOf(read, r, ScanWithAI(r), format)

----------------------------------------------------------------------------
(* The inputs *)

DirNames == {<<"src">>, <<".", "git">>}

FileNames == {<<"a", ".", "html">>, <<"a", ".", "stories", ".", "jsx">>}

Paths == [dirs : SeqsUpTo(DirNames, MaxDepth), file : FileNames]

Distinct(s) == \A i, j \in 1..Len(s) : i # j => s[i] # s[j]

\* The listings of the trees of at most MaxEntries files
Trees == {t \in SeqsUpTo(Paths, MaxEntries) : Distinct(t)}

\* The directory given to the program: one that no configuration excludes,
\* and one named as a directory the default configuration excludes
Roots == {<< <<"proj">> >>, << <<"dist">> >>}

\* a.html in k - 1 nested directories src
ChainPath(k) == [dirs |-> [i \in 1..(k - 1) |-> <<"src">>], file |-> <<"a", ".", "html">>]

Reverse(s) == [i \in 1..Len(s) |-> s[Len(s) + 1 - i]]

\* The trees main is run on: n supported files, one per depth, listed from
\* the bottom
MainTrees == {Reverse([i \in 1..n |-> ChainPath(i)]) : n \in 0..MaxScanFiles}

Elements == {<<"1">>} \cup {<<o>> : o \in Objects}

\* What the model answers in main: an array of at most MaxIssues elements,
\* prose without an array, or an array that does not decode
MainTexts ==
    {Canonical(items) : items \in SeqsUpTo(Elements, MaxIssues)}
    \cup {<<"x">>, <<"[", "x", "]">>}

MainReplies ==
    [kind : {"text"}, fence : {"none"}, base : MainTexts]
    \cup {[kind |-> "text", fence |-> "json", base |-> <<"[", "]">>]}
    \cup [kind : {"error", "none"}, fence : {"none"}, base : {<<>>}]

IdleReply == [kind |-> "none", fence |-> "none", base |-> <<>>]

\* How reading a file ends: lines 181-182 return, or open raises OSError
ReadOutcomes == {"ok", "OSError"}

\* AI_CHECKER_ACKNOWLEDGED: "true", another text, or not set
EnvValues == {"true", "TRUE", "<unset>"}

Answers == {"yes", " YES ", "no", "y", ""}

FormatAnswers == {"table", "LIST ", "csv", ""}

\* s.strip().lower() for the texts typed here
StripLower(s) ==
    IF s = " YES " THEN "yes"
    ELSE IF s = "LIST " THEN "list"
    ELSE s

----------------------------------------------------------------------------
(* main *)

\* lines 162-166: whether main goes on past the acknowledgement
Acknowledged_Always(env, typed) == TRUE

Acknowledged(env, typed) == env = "true" \/ StripLower(typed) = "yes"

\* lines 162-168: the prompt is shown unless the variable is "true"
Acknowledge ==
    /\ pc = "start"
    /\ \E typed \in (IF env_ack = "true" THEN {"<none>"} ELSE Answers) :
          /\ resp' = typed
          /\ pc' = IF Acknowledged(env_ack, typed) THEN "inputs" ELSE "exited"
    /\ UNCHANGED <<raised, scanvars, findvars, env_ack, output_format, idx,
                   attempted, readlog, calls, console>>

\* lines 46-79, 170: the format comes from the command line, where argparse
\* admits table and list only, or from the prompt, where anything else than
\* table and list is table
GetUserInputs ==
    /\ pc = "inputs"
    /\ \/ \E f \in {"table", "list"} : output_format' = f
       \/ \E typed \in FormatAnswers :
             output_format' = IF StripLower(typed) \in {"table", "list"}
                              THEN StripLower(typed) ELSE "table"
    /\ pc' = "discover"
    /\ UNCHANGED <<raised, scanvars, findvars, env_ack, resp, idx, attempted,
                   readlog, calls, console>>

\* lines 171-175
Discover ==
    /\ pc = "discover"
    /\ files_to_scan' = FindSupportedFiles(directory, tree, CONFIG)
    /\ pc' = IF files_to_scan' = <<>> THEN "done" ELSE "loop"
    /\ UNCHANGED <<raised, scanvars, CONFIG, directory, tree, mainvars>>

\* lines 179-218: one iteration of the loop
ScanFile ==
    /\ pc = "loop"
    /\ idx <= Len(files_to_scan)
    /\ \E read \in ReadOutcomes, r \in MainReplies :
          \E it \in {Iteration(read, r, output_format)} :
              /\ reply' = IF read = "ok" THEN r ELSE IdleReply
              /\ issues' = it.issues
              /\ log' = it.log
              /\ console' = it.console
              /\ raised' = it.raised
              /\ calls' = Append(calls, it.calls)
              /\ readlog' = Append(readlog, read)
              /\ pc' = IF it.raised # "none" THEN "crashed"
                       ELSE IF idx + 1 > Len(files_to_scan) THEN "done"
                       ELSE "loop"
    /\ attempted' = Append(attempted, files_to_scan[idx])
    /\ idx' = idx + 1
    /\ UNCHANGED <<findvars, env_ack, resp, output_format>>

IdleScan ==
    /\ reply = IdleReply
    /\ issues = <<>>
    /\ log = <<>>

IdleMain ==
    /\ resp = "<none>"
    /\ output_format = "<none>"
    /\ idx = 1
    /\ attempted = <<>>
    /\ readlog = <<>>
    /\ calls = <<>>
    /\ console = <<>>

Init ==
    /\ pc = "start"
    /\ raised = "none"
    /\ IdleScan
    /\ CONFIG = DefaultConfig
    /\ directory = << <<"proj">> >>
    /\ tree \in MainTrees
    /\ files_to_scan = <<>>
    /\ env_ack \in EnvValues
    /\ IdleMain

Next == Acknowledge \/ GetUserInputs \/ Discover \/ ScanFile

Spec == Init /\ [][Next]_vars

----------------------------------------------------------------------------
(* scan_with_ai alone, on every reply *)

InitParse ==
    /\ pc = "scan"
    /\ raised = "none"
    /\ reply \in Replies(Texts)
    /\ issues = <<>>
    /\ log = <<>>
    /\ CONFIG = DefaultConfig
    /\ directory = << <<"proj">> >>
    /\ tree = <<>>
    /\ files_to_scan = <<>>
    /\ env_ack = "true"
    /\ IdleMain

ScanStep ==
    /\ pc = "scan"
    /\ LET out == ScanWithAI(reply)
       IN  /\ issues' = out.issues
           /\ log' = out.log
           /\ raised' = out.raised
    /\ pc' = "returned"
    /\ UNCHANGED <<reply, findvars, mainvars>>

NextParse == ScanStep

SpecParse == InitParse /\ [][NextParse]_vars

----------------------------------------------------------------------------
(* find_supported_files alone, on every tree, directory and configuration *)

InitFind ==
    /\ pc = "discover"
    /\ raised = "none"
    /\ IdleScan
    /\ CONFIG \in Configs
    /\ directory \in Roots
    /\ tree \in Trees
    /\ files_to_scan = <<>>
    /\ env_ack = "true"
    /\ IdleMain

NextFind == Discover

SpecFind == InitFind /\ [][NextFind]_vars

----------------------------------------------------------------------------
(* The claims *)

\* The valid JSON arrays in a text: where one starts, and where it ends
ArrayEnds(s, i) == {j \in i..Len(s) : JsonLoads(SubSeq(s, i, j)).ok}

ArrayStarts(s) == {i \in 1..Len(s) : s[i] = "[" /\ ArrayEnds(s, i) # {}}

FirstArray(s) ==
    LET i == Min(ArrayStarts(s)) IN SubSeq(s, i, Min(ArrayEnds(s, i)))

\* C1: for a text that contains a valid JSON array (bare, in other text or in
\* code fences) the parser returns the decoded elements of that array.
C1_ReturnsTheArrayOfTheText ==
    (pc = "returned" /\ reply.kind = "text" /\ ArrayStarts(Content(reply)) # {})
    => issues = JsonLoads(FirstArray(Content(reply))).items

\* The match of line 144 on the reply's text
Located == SearchArray(CleanOutput(Content(reply)))

\* C2: whatever the endpoint does (any text, no content, an exception),
\* scan_with_ai returns: no exception leaves it; a failed call returns the
\* empty sequence, and so does a located substring that does not decode,
\* with the warning printed.
C2_ScanNeverRaises ==
    pc = "returned" =>
        /\ raised = "none"
        /\ reply.kind # "text" => issues = <<>>
        /\ (reply.kind = "text" /\ Located.found /\ ~JsonLoads(Located.text).ok)
           => (issues = <<>> /\ log = <<"JSON parsing error">>)

\* C2's case: a located substring failed to decode and scan_with_ai returned
C2_Witness ==
    /\ pc = "returned"
    /\ reply.kind = "text"
    /\ Located.found
    /\ ~JsonLoads(Located.text).ok
    /\ log = <<"JSON parsing error">>

\* a "[" with a "]" somewhere after it
HasBracketPair(s) ==
    \E i, j \in 1..Len(s) : i < j /\ s[i] = "[" /\ s[j] = "]"

\* C3: for a text with no "[" followed later by a "]" the parser returns the
\* empty sequence (and prints nothing).
C3_NoArrayNoFindings ==
    (pc = "returned" /\ reply.kind = "text" /\ ~HasBracketPair(Content(reply)))
    => (issues = <<>> /\ log = <<>> /\ raised = "none")

\* C3's case: both brackets are in the text, but no "[" before a "]"
C3_Witness ==
    /\ pc = "returned"
    /\ reply.kind = "text"
    /\ ~HasBracketPair(Content(reply))
    /\ Positions(Content(reply), "[") # {}
    /\ Positions(Content(reply), "]") # {}
    /\ issues = <<>>

\* C4: for a valid JSON array text T, T in a leading fence line (with or
\* without the json tag) and a trailing fence is parsed as T alone is: the
\* same elements, those of T, and through the normal path, nothing printed.
C4_FencesAreTransparent ==
    (pc = "returned" /\ reply.kind = "text" /\ reply.fence # "none"
        /\ JsonLoads(reply.base).ok)
    => /\ issues = ScanWithAI([reply EXCEPT !.fence = "none"]).issues
       /\ log = ScanWithAI([reply EXCEPT !.fence = "none"]).log
       /\ issues = JsonLoads(reply.base).items
       /\ log = <<>>
       /\ raised = "none"

\* C4's case: the fenced empty array of the spec's example, parsed
C4_Witness ==
    /\ pc = "returned"
    /\ reply = [kind |-> "text", fence |-> "json", base |-> <<"[", "]">>]
    /\ issues = <<>>
    /\ log = <<>>

Returned == {files_to_scan[k] : k \in 1..Len(files_to_scan)}

\* p has, from position from of its directories on, one of EXCLUDED_DIRS
UnderExcluded(p, from) ==
    \E k \in from..Len(p.dirs) : InSeq(p.dirs[k], CONFIG.EXCLUDED_DIRS)

NameAllowed(p) ==
    /\ \E k \in 1..Len(CONFIG.SUPPORTED_EXTENSIONS) :
          EndsWith(p.file, CONFIG.SUPPORTED_EXTENSIONS[k])
    /\ \A k \in 1..Len(CONFIG.EXCLUDED_PATTERNS) :
          ~Contains(p.file, CONFIG.EXCLUDED_PATTERNS[k])

\* C5 as claimed: no returned path lies under a directory whose name is in
\* EXCLUDED_DIRS, none has a name with an EXCLUDED_PATTERNS entry in it, and
\* every one ends with a SUPPORTED_EXTENSIONS entry.
C5_NoPathUnderAnExcludedName ==
    pc # "discover" =>
        \A p \in Returned : ~UnderExcluded(p, 1) /\ NameAllowed(p)

\* C5 as amended: the same for the directories below the scanned directory,
\* at every depth; the scanned directory's own path is not filtered.
C5_NoPathUnderAnExcludedDirBelowTop ==
    pc # "discover" =>
        \A p \in Returned :
            ~UnderExcluded(p, Len(directory) + 1) /\ NameAllowed(p)

\* C5's case: a supported file two levels down, in an excluded directory
\* within a directory that is walked, and another file that is returned
C5_Witness ==
    /\ pc # "discover"
    /\ files_to_scan # <<>>
    /\ \E k \in 1..Len(tree) :
          /\ Len(tree[k].dirs) = 2
          /\ KeepDir(tree[k].dirs[1], CONFIG)
          /\ InSeq(tree[k].dirs[2], CONFIG.EXCLUDED_DIRS)
          /\ KeepFile(tree[k].file, CONFIG)

\* The loop has taken the files before idx, in the order of files_to_scan,
\* no exception has left it, and while it runs there is a file left to take
\* (which is all that ScanFile needs to step)
LoopInv ==
    /\ raised = "none"
    /\ pc # "crashed"
    /\ attempted = SubSeq(files_to_scan, 1, idx - 1)
    /\ pc = "loop" => idx <= Len(files_to_scan)
    /\ pc = "done" => attempted = files_to_scan

\* A step of the loop takes the file at idx and no other, and leaves the loop
\* exactly after the last file
LoopStep ==
    pc = "loop" =>
        /\ idx' = idx + 1
        /\ attempted' = Append(attempted, files_to_scan[idx])
        /\ pc' = IF idx = Len(files_to_scan) THEN "done" ELSE "loop"

\* C6: whatever fails (a file that cannot be read, a failed call, a reply
\* that does not decode or does not render), the loop takes every discovered
\* file once, in order, goes on after each failure, and ends after the last:
\* in the loop there is a next file to take, each step takes it, and the
\* step that takes the last file ends the scan.
C6_EveryFileOnceThenDone ==
    [](LoopInv) /\ [][LoopStep]_vars

\* C6's case: the scan ended after an unreadable file and a failed call
C6_Witness ==
    /\ pc = "done"
    /\ Len(attempted) >= 2
    /\ readlog[1] = "OSError"
    /\ readlog[2] = "ok"
    /\ reply.kind = "error"

\* C7: the endpoint is called only once AI_CHECKER_ACKNOWLEDGED is "true" or
\* the answer to the prompt was yes (as the program reads it: stripped and
\* lowercased); any other answer ends the run with no file discovered and no
\* call made.
C7_NoCallBeforeAcknowledgement ==
    /\ (\E k \in 1..Len(calls) : calls[k] > 0)
       => (env_ack = "true" \/ StripLower(resp) = "yes")
    /\ (pc # "start" /\ env_ack # "true" /\ StripLower(resp) # "yes")
       => (pc = "exited" /\ files_to_scan = <<>> /\ calls = <<>>
           /\ attempted = <<>>)

\* C7's case: the variable is not "true", the user answered yes and a call
\* was made
C7_Witness ==
    /\ env_ack = "<unset>"
    /\ resp = " YES "
    /\ \E k \in 1..Len(calls) : calls[k] > 0

LastRead == readlog[Len(readlog)]

HasKind(c, kinds) == \E k \in 1..Len(c) : c[k].kind \in kinds

IsReport(m) == m.kind \in {"no_issues", "table", "rule", "item", "item_head"}

\* C8: when the findings of a file that was read are the empty sequence
\* (also after a failed call or a reply that does not decode), the report is
\* the no-issues message alone, no error is raised or reported, and the loop
\* goes on with the next file.
C8_EmptyFindingsNoIssuesMessage ==
    (readlog # <<>> /\ LastRead = "ok" /\ issues = <<>>)
    => /\ SelectSeq(console, IsReport) = <<Msg("no_issues", <<>>)>>
       /\ ~HasKind(console, {"could_not_read"})
       /\ raised = "none"
       /\ pc = IF idx <= Len(files_to_scan) THEN "loop" ELSE "done"

\* C8's case: the call failed, the message was printed and the loop goes on
C8_Witness ==
    /\ readlog # <<>>
    /\ LastRead = "ok"
    /\ reply.kind = "error"
    /\ issues = <<>>
    /\ HasKind(console, {"no_issues"})
    /\ pc = "loop"

Count(c, kind) == Cardinality({k \in 1..Len(c) : c[k].kind = kind})

\* C9: for a non-empty sequence the parser returned and either format, the
\* renderer prints one row or item for each element, and the file-unreadable
\* message is not printed for the file, which was read.
C9_RendersEveryRecordWithoutError ==
    (readlog # <<>> /\ LastRead = "ok" /\ issues # <<>>)
    => /\ ~HasKind(console, {"could_not_read"})
       /\ output_format = "table" =>
             \E k \in 1..Len(console) :
                console[k].kind = "table" /\ Len(console[k].rows) = Len(issues)
       /\ output_format = "list" => Count(console, "item") = Len(issues)

\* C10: the endpoint is called once for each file that was read and not at
\* all for a file that was not, whatever the call or the parsing came to: at
\* most one call for each discovered file.
C10_OneCallPerReadFile ==
    /\ Len(calls) = Len(readlog)
    /\ Len(calls) = Len(attempted)
    /\ Len(calls) <= Len(files_to_scan)
    /\ \A k \in 1..Len(calls) : calls[k] = IF readlog[k] = "ok" THEN 1 ELSE 0
    /\ pc = "done" => Len(calls) = Len(files_to_scan)

\* C10's case: a scan that ended with a file not read (no call) and a file
\* whose one call failed
C10_Witness ==
    /\ pc = "done"
    /\ readlog = <<"OSError", "ok">>
    /\ calls = <<0, 1>>
    /\ log = <<"Error scanning file">>

=============================================================================
